---- MODULE Spec2Model ----
(***************************************************************************)
(* AstronomyAPI widgets (src/src/astronomy-api-widgets.ts): the merge of a *)
(* user configuration over the shared defaults, its in-place validation,   *)
(* and the life of the one request each moonPhase / starChart call sends.  *)
(*                                                                         *)
(* JavaScript values are records [k, n, s, c]: k is the kind, n a number   *)
(* in hundredths (12.83 is 1283), s a string that is only ever compared    *)
(* (element locators, enum members), c a string as a tuple of characters   *)
(* (everything a regular expression reads) or, for a reference, the id of  *)
(* the object referred to.  Objects live in a heap: id -> (field -> value).*)
(***************************************************************************)
EXTENDS Integers, Sequences, FiniteSets, TLC

VARIABLES
  defaults,  \* the heap objects of DEFAULT_MOON_PHASE_PARAMS and DEFAULT_STAR_CHART_PARAMS
  now,       \* the latest instant new Date() returned
  dom,       \* the elements of the page: children and inline size
  inv,       \* per invocation: its request, timer, promise chain and what it did
  last,      \* the latest call: its argument, merged and validated params, warnings
  client     \* what new AstronomyAPI(params) came to: the instance or the error thrown

vars == <<defaults, now, dom, inv, last, client>>

----------------------------------------------------------------------------
(* Values *)

Undef == [k |-> "undef", n |-> 0, s |-> "", c |-> <<>>]

NaN == [k |-> "nan", n |-> 0, s |-> "", c |-> <<>>]

Null == [k |-> "null", n |-> 0, s |-> "", c |-> <<>>]

Num(x) == [k |-> "num", n |-> x, s |-> "", c |-> <<>>]

Str(x) == [k |-> "str", n |-> 0, s |-> x, c |-> <<>>]

Txt(cs) == [k |-> "txt", n |-> 0, s |-> "", c |-> cs]

Ref(id) == [k |-> "ref", n |-> 0, s |-> "", c |-> id]

Hundredths(x) == x * 100

TypeOf(v) ==
  CASE v.k \in {"str", "txt"} -> "string"
    [] v.k \in {"num", "nan"} -> "number"
    [] v.k = "undef" -> "undefined"
    [] v.k \in {"ref", "null"} -> "object"

\* JavaScript truthiness, as the conditional of the merge reads it
Truthy(v) ==
  CASE v.k = "str" -> v.s # ""
    [] v.k = "txt" -> v.c # <<>>
    [] v.k = "num" -> v.n # 0
    [] v.k = "ref" -> TRUE
    [] v.k \in {"undef", "nan", "null"} -> FALSE

\* String(v), as RegExp.prototype.test coerces its argument
ToChars(v) ==
  CASE v.k = "txt" -> v.c
    [] v.k = "undef" -> <<"u", "n", "d", "e", "f", "i", "n", "e", "d">>
    [] v.k = "null" -> <<"n", "u", "l", "l">>
    [] v.k = "nan" -> <<"N", "a", "N">>

----------------------------------------------------------------------------
(* Characters and the four regular expressions *)

Digits == {"0", "1", "2", "3", "4", "5", "6", "7", "8", "9"}

DigitSeq == <<"0", "1", "2", "3", "4", "5", "6", "7", "8", "9">>

LowerSeq ==
  <<"a", "b", "c", "d", "e", "f", "g", "h", "i", "j", "k", "l", "m",
    "n", "o", "p", "q", "r", "s", "t", "u", "v", "w", "x", "y", "z">>

UpperSeq ==
  <<"A", "B", "C", "D", "E", "F", "G", "H", "I", "J", "K", "L", "M",
    "N", "O", "P", "Q", "R", "S", "T", "U", "V", "W", "X", "Y", "Z">>

Range(q) == {q[i] : i \in 1..Len(q)}

Lower == Range(LowerSeq)

Upper == Range(UpperSeq)

Letters == Lower \cup Upper

HexDigits == Digits \cup {"a", "b", "c", "d", "e", "f", "A", "B", "C", "D", "E", "F"}

All(cs, S) == \A i \in 1..Len(cs) : cs[i] \in S

IndexIn(q, ch) == CHOOSE i \in 1..Len(q) : q[i] = ch

DigitVal(ch) == IndexIn(DigitSeq, ch) - 1

ToUpperChar(ch) == IF ch \in Lower THEN UpperSeq[IndexIn(LowerSeq, ch)] ELSE ch

ToLowerChar(ch) == IF ch \in Upper THEN LowerSeq[IndexIn(UpperSeq, ch)] ELSE ch

toUpperCase(cs) == [i \in 1..Len(cs) |-> ToUpperChar(cs[i])]

toLowerCase(cs) == [i \in 1..Len(cs) |-> ToLowerChar(cs[i])]

HasPrefix(cs, p) == Len(cs) >= Len(p) /\ SubSeq(cs, 1, Len(p)) = p

HasSuffix(cs, p) == Len(cs) >= Len(p) /\ SubSeq(cs, Len(cs) - Len(p) + 1, Len(cs)) = p

\* /^(#([0-9a-f]{3}){1,2}|(rgb|rgba)\([\d\s,.]+\)|[a-z]+)$/i
REGEX_CSS_COLOR(cs) ==
  LET lc == toLowerCase(cs)
      Inner(p) == SubSeq(lc, Len(p) + 1, Len(lc) - 1)
      Func(p) == /\ HasPrefix(lc, p)
                 /\ Len(lc) >= Len(p) + 2
                 /\ lc[Len(lc)] = ")"
                 /\ All(Inner(p), Digits \cup {" ", ",", "."})
  IN  \/ Len(cs) \in {4, 7} /\ cs[1] = "#" /\ All(Tail(cs), HexDigits)
      \/ Func(<<"r", "g", "b", "(">>)
      \/ Func(<<"r", "g", "b", "a", "(">>)
      \/ Len(cs) >= 1 /\ All(cs, Letters)

CssUnits == {<<"p", "x">>, <<"e", "m">>, <<"%">>, <<"v", "h">>, <<"v", "w">>}

\* \d+(\.\d+)?
IsDecimal(cs) ==
  \/ Len(cs) >= 1 /\ All(cs, Digits)
  \/ \E d \in 2..(Len(cs) - 1) :
       /\ cs[d] = "."
       /\ All(SubSeq(cs, 1, d - 1), Digits)
       /\ All(SubSeq(cs, d + 1, Len(cs)), Digits)

\* /^\d+(\.\d+)?(px|em|%|vh|vw)$/
REGEX_CSS_SIZE(cs) ==
  \E u \in CssUnits :
    HasSuffix(cs, u) /\ IsDecimal(SubSeq(cs, 1, Len(cs) - Len(u)))

\* (Z|[+-]\d{2}:\d{2})
IsZone(z) ==
  \/ z = <<"Z">>
  \/ /\ Len(z) = 6
     /\ z[1] \in {"+", "-"}
     /\ z[4] = ":"
     /\ \A i \in {2, 3, 5, 6} : z[i] \in Digits

\* /^\d{4}-\d{2}-\d{2}T\d{2}:\d{2}:\d{2}(\.\d+)?(Z|[+-]\d{2}:\d{2})$/
REGEX_ISO_DATE(cs) ==
  /\ Len(cs) >= 20
  /\ \A i \in {1, 2, 3, 4, 6, 7, 9, 10, 12, 13, 15, 16, 18, 19} : cs[i] \in Digits
  /\ cs[5] = "-" /\ cs[8] = "-" /\ cs[11] = "T" /\ cs[14] = ":" /\ cs[17] = ":"
  /\ LET r == SubSeq(cs, 20, Len(cs))
     IN  \/ IsZone(r)
         \/ /\ r[1] = "."
            /\ \E j \in 2..(Len(r) - 1) :
                 All(SubSeq(r, 2, j), Digits) /\ IsZone(SubSeq(r, j + 1, Len(r)))

\* /^[a-zA-Z]{3}$/
REGEX_CONSTELLATION_CODE(cs) == Len(cs) = 3 /\ All(cs, Letters)

TwoDigits(cs, i) == 10 * DigitVal(cs[i]) + DigitVal(cs[i + 1])

\* !isNaN(new Date(dateStr).getTime()) for a string REGEX_ISO_DATE accepted: the
\* calendar fields are in range (day 29..31 of a shorter month and hour 24 are
\* engine-dependent and not drawn as inputs)
DateParses(cs) ==
  /\ TwoDigits(cs, 6) \in 1..12
  /\ TwoDigits(cs, 9) \in 1..31
  /\ TwoDigits(cs, 12) \in 0..23
  /\ TwoDigits(cs, 15) \in 0..59
  /\ TwoDigits(cs, 18) \in 0..59

\* new Date().toISOString() at instant t (seconds after the script was loaded)
toISOString(t) ==
  <<"2", "0", "2", "6", "-", "0", "1", "-", "0", "1", "T", "0", "0", ":", "0", "0", ":",
    DigitSeq[(t \div 10) + 1], DigitSeq[(t % 10) + 1], ".", "0", "0", "0", "Z">>

----------------------------------------------------------------------------
(* Validation helpers: each returns the value to store and the warnings it *)
(* wrote to console.warn                                                   *)

Warning(widgetName, paramName, message, value, substitute) ==
  [widget |-> widgetName, param |-> paramName, msg |-> message, value |-> value,
   dflt |-> substitute]

Warn(widgetName, paramName, value, substitute) ==
  <<Warning(widgetName, paramName, "invalid", value, substitute)>>

\* validateStringEnum that lets every string through
validateStringEnum_AnyString(value, allowedValues, defaultValue, paramName, widgetName) ==
  IF value \in allowedValues \/ TypeOf(value) = "string"
    THEN [v |-> value, w |-> <<>>]
    ELSE [v |-> defaultValue, w |-> Warn(widgetName, paramName, value, defaultValue)]

validateStringEnum(value, allowedValues, defaultValue, paramName, widgetName) ==
  IF value \in allowedValues
    THEN [v |-> value, w |-> <<>>]
    ELSE [v |-> defaultValue, w |-> Warn(widgetName, paramName, value, defaultValue)]

validateCssColor(color, defaultValue, paramName, widgetName) ==
  IF REGEX_CSS_COLOR(ToChars(color))
    THEN [v |-> color, w |-> <<>>]
    ELSE [v |-> defaultValue, w |-> Warn(widgetName, paramName, color, defaultValue)]

validateCssSize(size, paramName, widgetName) ==
  IF size = Undef
    THEN [v |-> Undef, w |-> <<>>]
    ELSE IF REGEX_CSS_SIZE(ToChars(size))
      THEN [v |-> size, w |-> <<>>]
      ELSE [v |-> Undef, w |-> Warn(widgetName, paramName, size, Undef)]

\* validateNumberRange with the bounds left out of the range: value > min && value < max
validateNumberRange_Exclusive(value, min, max, defaultValue, paramName, widgetName) ==
  IF TypeOf(value) = "number" /\ value.k # "nan" /\ value.n > min /\ value.n < max
    THEN [v |-> value, w |-> <<>>]
    ELSE [v |-> defaultValue, w |-> Warn(widgetName, paramName, value, defaultValue)]

validateNumberRange(value, min, max, defaultValue, paramName, widgetName) ==
  IF TypeOf(value) = "number" /\ value.k # "nan" /\ value.n >= min /\ value.n <= max
    THEN [v |-> value, w |-> <<>>]
    ELSE [v |-> defaultValue, w |-> Warn(widgetName, paramName, value, defaultValue)]

\* defaultValueProvider is () => new Date().toISOString(), called at instant t
validateIsoDate(dateStr, t, paramName, widgetName) ==
  IF REGEX_ISO_DATE(ToChars(dateStr)) /\ DateParses(ToChars(dateStr))
    THEN [v |-> dateStr, w |-> <<>>]
    ELSE [v |-> Txt(toISOString(t)),
          w |-> Warn(widgetName, paramName, dateStr, Txt(toISOString(t)))]

\* validateConstellationCode with the pattern /^[a-z]{3}$/: lower-case codes only
validateConstellationCode_LowerOnly(code, defaultValue, paramName, widgetName) ==
  IF Len(ToChars(code)) = 3 /\ All(ToChars(code), Lower)
    THEN [v |-> Txt(toUpperCase(code.c)), w |-> <<>>]
    ELSE [v |-> defaultValue, w |-> Warn(widgetName, paramName, code, defaultValue)]

\* validateConstellationCode without toUpperCase(): an accepted code is returned as given
validateConstellationCode_AsGiven(code, defaultValue, paramName, widgetName) ==
  IF REGEX_CONSTELLATION_CODE(ToChars(code))
    THEN [v |-> code, w |-> <<>>]
    ELSE [v |-> defaultValue, w |-> Warn(widgetName, paramName, code, defaultValue)]

validateConstellationCode(code, defaultValue, paramName, widgetName) ==
  IF REGEX_CONSTELLATION_CODE(ToChars(code))
    THEN [v |-> Txt(toUpperCase(code.c)), w |-> <<>>]
    ELSE [v |-> defaultValue, w |-> Warn(widgetName, paramName, code, defaultValue)]

----------------------------------------------------------------------------
(* Objects and the heap *)

Empty == [f \in {} |-> Undef]

Get(o, f) == IF f \in DOMAIN o THEN o[f] ELSE Undef

\* { ...a, ...b }
Spread(a, b) == [f \in (DOMAIN a) \cup (DOMAIN b) |-> IF f \in DOMAIN b THEN b[f] ELSE a[f]]

With(o, f, v) == [g \in (DOMAIN o) \cup {f} |-> IF g = f THEN v ELSE o[g]]

\* (v || {}) under a spread: a reference spreads its object, a falsy value nothing
OrEmpty(h, v) == IF v.k = "ref" THEN h[v.c] ELSE Empty

RECURSIVE Read(_, _, _)
\* id.path[1].path[2]... read with optional chaining
Read(h, id, path) ==
  LET v == Get(h[id], Head(path))
  IN  IF Len(path) = 1 THEN v
      ELSE IF v.k = "ref" THEN Read(h, v.c, Tail(path))
      ELSE Undef

RECURSIVE Owner(_, _, _)
\* the object that an assignment to id.path[1]...path[n] writes
Owner(h, id, path) ==
  IF Len(path) = 1 THEN id ELSE Owner(h, Get(h[id], Head(path)).c, Tail(path))

Write(h, id, path, v) ==
  LET o == Owner(h, id, path)
  IN  [h EXCEPT ![o] = With(h[o], path[Len(path)], v)]

black == <<"b", "l", "a", "c", "k">>

white == <<"w", "h", "i", "t", "e">>

MoonId == <<"DM">>

StarId == <<"DS">>

UserId == <<"U">>

ParamsId == <<"P">>

\* the object literals of the two shared defaults, created when the script loads
DEFAULT_MOON_PHASE_PARAMS ==
  (MoonId :> [element |-> Str("#moon-phase"), format |-> Str("png"),
              style |-> Ref(<<"DM", "style">>), observer |-> Ref(<<"DM", "observer">>),
              view |-> Ref(<<"DM", "view">>)])
  @@ (<<"DM", "style">> :>
        [moonStyle |-> Str("default"), backgroundStyle |-> Str("stars"),
         backgroundColor |-> Txt(black), headingColor |-> Txt(white),
         textColor |-> Txt(white)])
  @@ (<<"DM", "observer">> :>
        [latitude |-> Num(0), longitude |-> Num(0), date |-> Txt(toISOString(0))])
  @@ (<<"DM", "view">> :> [type |-> Str("portrait-simple")])

DEFAULT_STAR_CHART_PARAMS ==
  (StarId :> [element |-> Str("#star-chart"), style |-> Ref(<<"DS", "style">>),
              observer |-> Ref(<<"DS", "observer">>), view |-> Ref(<<"DS", "view">>)])
  @@ (<<"DS", "style">> :> [type |-> Str("default")])
  @@ (<<"DS", "observer">> :>
        [latitude |-> Num(0), longitude |-> Num(0), date |-> Txt(toISOString(0))])
  @@ (<<"DS", "view">> :> [type |-> Str("area"), parameters |-> Ref(<<"DS", "parameters">>)])
  @@ (<<"DS", "parameters">> :> [position |-> Ref(<<"DS", "position">>), zoom |-> Num(300)])
  @@ (<<"DS", "position">> :> [equatorial |-> Ref(<<"DS", "equatorial">>)])
  @@ (<<"DS", "equatorial">> :> [rightAscension |-> Num(1283), declination |-> Num(-1523)])

DefaultIds == (DOMAIN DEFAULT_MOON_PHASE_PARAMS) \cup (DOMAIN DEFAULT_STAR_CHART_PARAMS)

----------------------------------------------------------------------------
(* The caller's argument.  A user configuration is drawn as a choice of    *)
(* leaves (path -> value); UserHeap builds the nested object literal the   *)
(* caller passes, one object per record the chosen leaves lie in.          *)

UnderPath(u, p) == {q \in DOMAIN u : Len(q) > Len(p) /\ SubSeq(q, 1, Len(p)) = p}

UserRecords(u) == {<<>>} \cup UNION {{SubSeq(q, 1, j) : j \in 0..(Len(q) - 1)} : q \in DOMAIN u}

UserObject(u, p) ==
  [f \in {q[Len(p) + 1] : q \in UnderPath(u, p)} |->
     IF Append(p, f) \in DOMAIN u THEN u[Append(p, f)] ELSE Ref(UserId \o Append(p, f))]

UserHeap(u) == [id \in {UserId \o p : p \in UserRecords(u)} |-> UserObject(u, Tail(id))]

----------------------------------------------------------------------------
(* moonPhase: merge and validation.  A merge state is [h, w]: the heap and *)
(* the warnings written so far.                                            *)

P(st, path) == Read(st.h, ParamsId, path)

\* params.<path> = <validator>(...)
Assign(st, path, r) == [h |-> Write(st.h, ParamsId, path, r.v), w |-> st.w \o r.w]

\* the merge without the date member of line 315: observer.date is the caller's or the
\* one DEFAULT_MOON_PHASE_PARAMS got when the script was loaded
MoonMerge_LoadTimeDate(h, t) ==
  LET D == h[MoonId]
      U == h[UserId]
      observer == Spread(h[D.observer.c], OrEmpty(h, Get(U, "observer")))
      style == Spread(h[D.style.c], OrEmpty(h, Get(U, "style")))
      view == Spread(h[D.view.c], OrEmpty(h, Get(U, "view")))
      params == Spread(Spread(D, U),
                       [observer |-> Ref(<<"P", "observer">>), style |-> Ref(<<"P", "style">>),
                        view |-> Ref(<<"P", "view">>)])
  IN  (ParamsId :> params) @@ (<<"P", "observer">> :> observer)
      @@ (<<"P", "style">> :> style) @@ (<<"P", "view">> :> view) @@ h

\* let params = { ...DEFAULT_MOON_PHASE_PARAMS, ...userParams, observer: {...}, style: {...},
\* view: {...} }, evaluated at instant t in a heap holding the defaults and the argument
MoonMerge(h, t) ==
  LET D == h[MoonId]
      U == h[UserId]
      uObs == OrEmpty(h, Get(U, "observer"))
      uDate == Read(h, UserId, <<"observer", "date">>)
      observer == With(Spread(h[D.observer.c], uObs), "date",
                       IF Truthy(uDate) THEN uDate ELSE Txt(toISOString(t)))
      style == Spread(h[D.style.c], OrEmpty(h, Get(U, "style")))
      view == Spread(h[D.view.c], OrEmpty(h, Get(U, "view")))
      params == Spread(Spread(D, U),
                       [observer |-> Ref(<<"P", "observer">>), style |-> Ref(<<"P", "style">>),
                        view |-> Ref(<<"P", "view">>)])
  IN  (ParamsId :> params) @@ (<<"P", "observer">> :> observer)
      @@ (<<"P", "style">> :> style) @@ (<<"P", "view">> :> view) @@ h

MoonFormats == {Str("png"), Str("svg")}

MoonStyles == {Str("default"), Str("sketch"), Str("realistic")}

BackgroundStyles == {Str("stars"), Str("solid"), Str("transparent")}

MoonViewTypes ==
  {Str("portrait-simple"), Str("portrait-detailed"), Str("landscape-simple"),
   Str("landscape-detailed")}

\* params.<path> = validateStringEnum(params.<path>, allowed, DEFAULT.<path>, name, widget);
\* the default is read from the heap when the assignment runs
EnumRule(st, path, allowed, defaultId, paramName, widgetName) ==
  Assign(st, path,
         validateStringEnum(P(st, path), allowed, Read(st.h, defaultId, path), paramName,
                            widgetName))

ColorRule(st, path, defaultId, paramName, widgetName) ==
  Assign(st, path,
         validateCssColor(P(st, path), Read(st.h, defaultId, path), paramName, widgetName))

SizeRule(st, path, paramName, widgetName) ==
  Assign(st, path, validateCssSize(P(st, path), paramName, widgetName))

RangeRule(st, path, min, max, defaultId, paramName, widgetName) ==
  Assign(st, path,
         validateNumberRange(P(st, path), Hundredths(min), Hundredths(max),
                             Read(st.h, defaultId, path), paramName, widgetName))

DateRule(st, path, t, paramName, widgetName) ==
  Assign(st, path, validateIsoDate(P(st, path), t, paramName, widgetName))

\* the assignments of lines 332-347, in order
MoonValidate(st0, t) ==
  LET W == "moonPhase"
      s1 == EnumRule(st0, <<"format">>, MoonFormats, MoonId, "format", W)
      s2 == EnumRule(s1, <<"style", "moonStyle">>, MoonStyles, MoonId, "style.moonStyle", W)
      s3 == EnumRule(s2, <<"style", "backgroundStyle">>, BackgroundStyles, MoonId,
                     "style.backgroundStyle", W)
      s4 == ColorRule(s3, <<"style", "backgroundColor">>, MoonId, "style.backgroundColor", W)
      s5 == ColorRule(s4, <<"style", "headingColor">>, MoonId, "style.headingColor", W)
      s6 == ColorRule(s5, <<"style", "textColor">>, MoonId, "style.textColor", W)
      s7 == SizeRule(s6, <<"style", "width">>, "style.width", W)
      s8 == SizeRule(s7, <<"style", "height">>, "style.height", W)
      s9 == RangeRule(s8, <<"observer", "latitude">>, -90, 90, MoonId, "observer.latitude", W)
      s10 == RangeRule(s9, <<"observer", "longitude">>, -180, 180, MoonId,
                       "observer.longitude", W)
      s11 == DateRule(s10, <<"observer", "date">>, t, "observer.date", W)
  IN  EnumRule(s11, <<"view", "type">>, MoonViewTypes, MoonId, "view.type", W)

\* lines 350-353 (and 463-466): a falsy element is replaced by the default locator
DefaultElement(st, defaultId, widgetName) ==
  IF Truthy(P(st, <<"element">>))
    THEN st
    ELSE [h |-> Write(st.h, ParamsId, <<"element">>, Read(st.h, defaultId, <<"element">>)),
          w |-> Append(st.w, Warning(widgetName, "element", "no-element",
                                     P(st, <<"element">>),
                                     Read(st.h, defaultId, <<"element">>)))]

\* everything moonPhase does to params before it looks the element up
MoonParams(h, t) ==
  DefaultElement(MoonValidate([h |-> MoonMerge(h, t), w |-> <<>>], t), MoonId, "moonPhase")

----------------------------------------------------------------------------
(* starChart: merge and validation *)

\* the merge one level deep, as moonPhase's: view: { ...DEFAULT.view, ...userParams.view },
\* so that params.view.parameters is the parameters object of the defaults (or the caller's)
StarMerge_Shallow(h, t) ==
  LET D == h[StarId]
      U == h[UserId]
      uObs == OrEmpty(h, Get(U, "observer"))
      uDate == Read(h, UserId, <<"observer", "date">>)
      observer == With(Spread(h[D.observer.c], uObs), "date",
                       IF Truthy(uDate) THEN uDate ELSE Txt(toISOString(t)))
      style == Spread(h[D.style.c], OrEmpty(h, Get(U, "style")))
      view == Spread(h[D.view.c], OrEmpty(h, Get(U, "view")))
      params == Spread(Spread(D, U),
                       [observer |-> Ref(<<"P", "observer">>), style |-> Ref(<<"P", "style">>),
                        view |-> Ref(<<"P", "view">>)])
  IN  (ParamsId :> params) @@ (<<"P", "observer">> :> observer)
      @@ (<<"P", "style">> :> style) @@ (<<"P", "view">> :> view) @@ h

\* lines 374-402: every nested record of the result is a new object
StarMerge(h, t) ==
  LET D == h[StarId]
      U == h[UserId]
      dView == h[D.view.c]
      dParams == h[dView.parameters.c]
      dPos == h[dParams.position.c]
      uObs == OrEmpty(h, Get(U, "observer"))
      uDate == Read(h, UserId, <<"observer", "date">>)
      uView == OrEmpty(h, Get(U, "view"))
      uParams == OrEmpty(h, Get(uView, "parameters"))
      uPos == OrEmpty(h, Get(uParams, "position"))
      uEq == OrEmpty(h, Get(uPos, "equatorial"))
      observer == With(Spread(h[D.observer.c], uObs), "date",
                       IF Truthy(uDate) THEN uDate ELSE Txt(toISOString(t)))
      style == Spread(h[D.style.c], OrEmpty(h, Get(U, "style")))
      equatorial == Spread(h[dPos.equatorial.c], uEq)
      position == With(Spread(dPos, uPos), "equatorial", Ref(<<"P", "equatorial">>))
      parameters == With(Spread(dParams, uParams), "position", Ref(<<"P", "position">>))
      view == With(Spread(dView, uView), "parameters", Ref(<<"P", "parameters">>))
      params == Spread(Spread(D, U),
                       [observer |-> Ref(<<"P", "observer">>), style |-> Ref(<<"P", "style">>),
                        view |-> Ref(<<"P", "view">>)])
  IN  (ParamsId :> params) @@ (<<"P", "observer">> :> observer)
      @@ (<<"P", "style">> :> style) @@ (<<"P", "view">> :> view)
      @@ (<<"P", "parameters">> :> parameters) @@ (<<"P", "position">> :> position)
      @@ (<<"P", "equatorial">> :> equatorial) @@ h

StarStyles ==
  {Str("default"), Str("constellation"), Str("red"), Str("nightvision"), Str("sketch"),
   Str("white")}

StarViewTypes == {Str("area"), Str("constellation")}

defaultConstellationCode == Txt(<<"O", "R", "I">>)

RightAscension == <<"view", "parameters", "position", "equatorial", "rightAscension">>

Declination == <<"view", "parameters", "position", "equatorial", "declination">>

Zoom == <<"view", "parameters", "zoom">>

ConstellationCode == <<"view", "parameters", "constellation">>

\* the safeguard of line 425: params.view.parameters = { ...DEFAULT.view.parameters }
ResetParameters(st) ==
  [h |-> (<<"P", "safeguard">> :> st.h[Read(st.h, StarId, <<"view", "parameters">>).c])
         @@ Write(st.h, ParamsId, <<"view", "parameters">>, Ref(<<"P", "safeguard">>)),
   w |-> st.w]

\* lines 421-426
StarValidatePosition(st) ==
  IF Truthy(P(st, <<"view", "parameters", "position", "equatorial">>))
    THEN RangeRule(RangeRule(st, RightAscension, 0, 24, StarId,
                             "view.parameters.position.equatorial.rightAscension",
                             "starChart"),
                   Declination, -90, 90, StarId,
                   "view.parameters.position.equatorial.declination", "starChart")
    ELSE ResetParameters(st)

\* lines 420-427, view.type === 'area'
StarValidateArea(st) ==
  RangeRule(StarValidatePosition(st), Zoom, 1, 10, StarId, "view.parameters.zoom", "starChart")

\* lines 439-444: a code that is no string is replaced, with a warning of its own
CurrentConstellationCode(st) ==
  IF TypeOf(P(st, ConstellationCode)) # "string"
    THEN [h |-> Write(st.h, ParamsId, <<"currentConstellationCode">>,
                      defaultConstellationCode),
          w |-> Append(st.w, Warning("starChart", "view.parameters.constellation",
                                     "no-constellation", P(st, ConstellationCode),
                                     defaultConstellationCode))]
    ELSE [h |-> Write(st.h, ParamsId, <<"currentConstellationCode">>,
                      P(st, ConstellationCode)),
          w |-> st.w]

\* lines 448-453: if (!params.view.parameters) params.view.parameters = {}
EnsureParameters(st) ==
  IF Truthy(P(st, <<"view", "parameters">>))
    THEN st
    ELSE [h |-> (<<"P", "safeguard">> :> Empty)
                @@ Write(st.h, ParamsId, <<"view", "parameters">>, Ref(<<"P", "safeguard">>)),
          w |-> st.w]

\* line 455
AssignConstellation(st) ==
  Assign(st, ConstellationCode,
         validateConstellationCode(P(st, <<"currentConstellationCode">>),
                                   defaultConstellationCode,
                                   "view.parameters.constellation", "starChart"))

\* the local variable currentConstellationCode is kept beside params while the
\* branch runs and is gone when it ends
DropLocal(st) ==
  [h |-> [st.h EXCEPT ![ParamsId] =
            [f \in (DOMAIN @) \ {"currentConstellationCode"} |-> @[f]]],
   w |-> st.w]

\* lines 428-456, view.type === 'constellation'
StarValidateConstellation(st) ==
  DropLocal(AssignConstellation(EnsureParameters(CurrentConstellationCode(st))))

\* lines 419-460
StarValidateView(st) ==
  IF P(st, <<"view", "type">>) = Str("area") THEN StarValidateArea(st)
  ELSE IF P(st, <<"view", "type">>) = Str("constellation") THEN StarValidateConstellation(st)
  ELSE st

\* the star-chart rules with the view-dependent ones run on the view.type as merged,
\* and the view.type rule after them
StarValidate_TypeLast(st0, t) ==
  LET W == "starChart"
      s1 == EnumRule(st0, <<"style", "type">>, StarStyles, StarId, "style.type", W)
      s2 == SizeRule(s1, <<"style", "width">>, "style.width", W)
      s3 == SizeRule(s2, <<"style", "height">>, "style.height", W)
      s4 == RangeRule(s3, <<"observer", "latitude">>, -90, 90, StarId, "observer.latitude", W)
      s5 == RangeRule(s4, <<"observer", "longitude">>, -180, 180, StarId,
                      "observer.longitude", W)
      s6 == DateRule(s5, <<"observer", "date">>, t, "observer.date", W)
  IN  EnumRule(StarValidateView(s6), <<"view", "type">>, StarViewTypes, StarId, "view.type", W)

\* the assignments of lines 409-460, in order
StarValidate(st0, t) ==
  LET W == "starChart"
      s1 == EnumRule(st0, <<"style", "type">>, StarStyles, StarId, "style.type", W)
      s2 == SizeRule(s1, <<"style", "width">>, "style.width", W)
      s3 == SizeRule(s2, <<"style", "height">>, "style.height", W)
      s4 == RangeRule(s3, <<"observer", "latitude">>, -90, 90, StarId, "observer.latitude", W)
      s5 == RangeRule(s4, <<"observer", "longitude">>, -180, 180, StarId,
                      "observer.longitude", W)
      s6 == DateRule(s5, <<"observer", "date">>, t, "observer.date", W)
      s7 == EnumRule(s6, <<"view", "type">>, StarViewTypes, StarId, "view.type", W)
  IN  StarValidateView(s7)

\* everything starChart does to params before it looks the element up
StarParams(h, t) ==
  DefaultElement(StarValidate([h |-> StarMerge(h, t), w |-> <<>>], t), StarId, "starChart")

----------------------------------------------------------------------------
(* An object with everything it refers to, and JSON.stringify(params):     *)
(* undefined members are left out, NaN becomes null                        *)

RECURSIVE Tree(_, _)
\* the object id as a nested record, every member as it is
Tree(h, id) ==
  [f \in DOMAIN h[id] |-> IF h[id][f].k = "ref" THEN Tree(h, h[id][f].c) ELSE h[id][f]]

RECURSIVE Json(_, _)
Json(h, id) ==
  [f \in {g \in DOMAIN h[id] : h[id][g].k # "undef"} |->
     IF h[id][f].k = "ref" THEN Json(h, h[id][f].c)
     ELSE IF h[id][f].k = "nan" THEN Null
     ELSE h[id][f]]

IsValue(j) == DOMAIN j = {"k", "n", "s", "c"}

RECURSIVE At(_, _)
\* the member of a serialised object at a path, Undef when it is absent
At(j, path) ==
  IF path = <<>> THEN j
  ELSE IF IsValue(j) \/ Head(path) \notin DOMAIN j THEN Undef
  ELSE At(j[Head(path)], Tail(path))

----------------------------------------------------------------------------
(* The page, the invocations and the event loop *)

MaxInv == 2

\* the clock new Date() reads: instants 0 (the script is loaded) to MaxClock
MaxClock == 1

Invocations == 1..MaxInv

\* the elements of the host page that a locator can resolve to
DomElements == {"#w", "#moon-phase", "#star-chart"}

\* what the caller passes as the completion callback: a function or a falsy value
Callbacks == {"function", "null"}

\* what a callback function does when it is called
Behaviours == {"returns", "throws"}

\* status lines the remote side answers with
Statuses == {200, 422, 500}

\* what response.json() comes to: a body with data.imageUrl, a JSON body without a
\* data member, or a rejection (malformed JSON, or the body stream failing)
Bodies == {"image", "nodata", "unparsable"}

Node(tag, text, n, by) == [tag |-> tag, text |-> text, n |-> n, by |-> by]

\* document.createElement("p") with innerText = text (n: the number inside the text)
getPlaceholder(text, n, by) == Node("p", text, n, by)

\* new Image() with src = result.data.imageUrl
ImageNode(src, by) == Node("img", src, 0, by)

MOCK_IMAGE_URL == "http://example.com/mock_image.png"

IdleInvocation ==
  [pc |-> "idle", el |-> "", cb |-> "null", timer |-> "none",
   aborted |-> FALSE, net |-> "none", requests |-> 0, status |-> 0, result |-> "none",
   error |-> "none", outcomes |-> <<>>, cbCalls |-> 0, cbArg |-> "none", log |-> <<>>,
   body |-> <<>>]

NoCall ==
  [i |-> 0, widget |-> "none", at |-> 0, user |-> <<>>, merged |-> <<>>, params |-> <<>>,
   warns |-> <<>>, sent |-> FALSE]

NoClient == [state |-> "none", params |-> Empty, error |-> "none"]

MinTokenLength == 10

\* the constructor with the length test off by one: basicToken.length < 9
Constructor_OffByOne(params) ==
  /\ client.state # "constructed"
  /\ client' =
       IF \/ ~Truthy(Get(params, "basicToken"))
          \/ Len(Get(params, "basicToken").c) < MinTokenLength - 1
         THEN [state |-> "threw", params |-> params,
               error |-> "basicToken must be set during construction"]
         ELSE [state |-> "constructed", params |-> params, error |-> "none"]
  /\ UNCHANGED <<defaults, now, dom, inv, last>>

\* constructor(params), lines 482-487: the page has no client yet (none was made, or
\* the last attempt threw); params is the object literal { basicToken?: ... }.  The
\* message is written without the backquotes it has around basicToken.
Constructor(params) ==
  /\ client.state # "constructed"
  /\ client' =
       IF \/ ~Truthy(Get(params, "basicToken"))
          \/ Len(Get(params, "basicToken").c) < MinTokenLength
         THEN [state |-> "threw", params |-> params,
               error |-> "basicToken must be set during construction"]
         ELSE [state |-> "constructed", params |-> params, error |-> "none"]
  /\ UNCHANGED <<defaults, now, dom, inv, last>>

Init ==
  /\ defaults = DEFAULT_MOON_PHASE_PARAMS @@ DEFAULT_STAR_CHART_PARAMS
  /\ now = 0
  /\ dom = [e \in DomElements |->
              [children |-> IF e = "#w" THEN <<Node("div", "earlier content", 0, 0)>> ELSE <<>>,
               width |-> <<>>, height |-> <<>>]]
  /\ inv = [i \in Invocations |-> IdleInvocation]
  /\ last = NoCall
  /\ client = NoClient

\* promise reactions queued and not yet run: the event loop runs them before it
\* takes the next task (a call from the page, a timer, a network event)
MicrotaskPcs == {"fulfilled", "rejected", "jsonResolved", "jsonRejected"}

NoMicrotask == \A i \in Invocations : inv[i].pc \notin MicrotaskPcs

LogEntry(msg, s, n) == [msg |-> msg, s |-> s, n |-> n]

px200 == <<"2", "0", "0", "p", "x">>

px260 == <<"2", "6", "0", "p", "x">>

px160 == <<"1", "6", "0", "p", "x">>

px800 == <<"8", "0", "0", "p", "x">>

px617 == <<"6", "1", "7", "p", "x">>

\* a || b on a style member
OrElse(v, cs) == IF Truthy(v) THEN v.c ELSE cs

\* lines 217-232; el is the element record, styleParams the validated params.style
setContainerSize(widgetType, el, viewType, styleParams) ==
  IF widgetType = "moon-phase"
    THEN [el EXCEPT
            !.width = OrElse(Get(styleParams, "width"),
                             IF viewType = Str("portrait-simple") THEN px200 ELSE px260),
            !.height = OrElse(Get(styleParams, "height"),
                              IF viewType = Str("portrait-simple") THEN px260 ELSE px160)]
  ELSE IF widgetType = "star-chart"
    THEN [el EXCEPT !.width = OrElse(Get(styleParams, "width"), px800),
                    !.height = OrElse(Get(styleParams, "height"), px617)]
  ELSE el

\* el.append(node)
append(el, node) == [el EXCEPT !.children = Append(@, node)]

\* replaceChildren that leaves the children that were there: the node is added
replaceChildren_Keep(el, node) == [el EXCEPT !.children = Append(@, node)]

\* el.replaceChildren(node)
replaceChildren(el, node) == [el EXCEPT !.children = <<node>>]

\* request(), lines 240-259: a controller, the 15 s timer, one fetch whose body is
\* JSON.stringify(params), a string made during the call
request(r, params) ==
  [r EXCEPT !.pc = "pending", !.timer = "armed", !.aborted = FALSE, !.net = "inflight",
            !.requests = @ + 1, !.body = params]

\* clearTimeout(timeoutId)
clearTimeout(r) == [r EXCEPT !.timer = IF @ = "armed" THEN "cleared" ELSE @]

\* Launch without the early return of lines 357-360: the request is made although
\* no element was found
Launch_NoLookup(i, widgetType, st, cb) ==
  LET locator == P(st, <<"element">>).s
      r == [inv[i] EXCEPT !.el = locator, !.cb = cb]
  IN  IF locator \notin DOMAIN dom
        THEN /\ inv' = [inv EXCEPT ![i] = request(r, Json(st.h, ParamsId))]
             /\ UNCHANGED dom
        ELSE /\ dom' = [dom EXCEPT ![locator] =
                          append(setContainerSize(widgetType, @, P(st, <<"view", "type">>),
                                                  st.h[P(st, <<"style">>).c]),
                                 getPlaceholder("Loading...", 0, i))]
             /\ inv' = [inv EXCEPT ![i] = request(r, Json(st.h, ParamsId))]

\* lines 355-366 (moonPhase) and 468-479 (starChart): look the element up, give up
\* with an error when there is none, else size it, append "Loading..." and request
Launch(i, widgetType, st, cb) ==
  LET locator == P(st, <<"element">>).s
      r == [inv[i] EXCEPT !.el = locator, !.cb = cb]
  IN  IF locator \notin DOMAIN dom
        THEN /\ inv' = [inv EXCEPT ![i] =
                          [r EXCEPT !.pc = "notfound",
                                    !.log = Append(@, LogEntry("Target element not found",
                                                               locator, 0))]]
             /\ UNCHANGED dom
        ELSE /\ dom' = [dom EXCEPT ![locator] =
                          append(setContainerSize(widgetType, @, P(st, <<"view", "type">>),
                                                  st.h[P(st, <<"style">>).c]),
                                 getPlaceholder("Loading...", 0, i))]
             /\ inv' = [inv EXCEPT ![i] = request(r, Json(st.h, ParamsId))]

Called(i, widgetName, t, u, merged, st) ==
  [i |-> i, widget |-> widgetName, at |-> t, user |-> u, merged |-> Tree(merged, ParamsId),
   params |-> Json(st.h, ParamsId), warns |-> st.w,
   sent |-> P(st, <<"element">>).s \in DOMAIN dom]

\* the invocation a call starts: the first one not yet used
NextInvocation(i) == inv[i].pc = "idle" /\ \A j \in 1..(i - 1) : inv[j].pc # "idle"

\* moonPhase(userParams, callback), lines 304-367, called at instant t
MoonPhase(u, cb, t) ==
  \E i \in Invocations :
    /\ client.state = "constructed"
    /\ UNCHANGED client
    /\ NoMicrotask
    /\ NextInvocation(i)
    /\ t \in now..MaxClock
    /\ now' = t
    /\ \E st \in {MoonParams(UserHeap(u) @@ defaults, t)} :
         /\ defaults' = [id \in DefaultIds |-> st.h[id]]
         /\ last' = Called(i, "moonPhase", t, u, MoonMerge(UserHeap(u) @@ defaults, t), st)
         /\ Launch(i, "moon-phase", st, cb)

\* starChart(userParams, callback), lines 369-480, called at instant t
StarChart(u, cb, t) ==
  \E i \in Invocations :
    /\ client.state = "constructed"
    /\ UNCHANGED client
    /\ NoMicrotask
    /\ NextInvocation(i)
    /\ t \in now..MaxClock
    /\ now' = t
    /\ \E st \in {StarParams(UserHeap(u) @@ defaults, t)} :
         /\ defaults' = [id \in DefaultIds |-> st.h[id]]
         /\ last' = Called(i, "starChart", t, u, StarMerge(UserHeap(u) @@ defaults, t), st)
         /\ Launch(i, "star-chart", st, cb)

----------------------------------------------------------------------------
(* The request: tasks (timer, network) and the promise reactions of        *)
(* request(), lines 260-301                                                *)

Render(i, node) == dom' = [dom EXCEPT ![inv[i].el] = replaceChildren(@, node)]

Finish(r, outcome, entry) ==
  [r EXCEPT !.pc = "done", !.outcomes = Append(@, outcome), !.log = Append(@, entry)]

\* the timer callback without controller.abort(): the timer fires and the fetch goes on
TimeoutCallback_NoAbort(i) ==
  /\ NoMicrotask
  /\ inv[i].timer = "armed"
  /\ inv' = [inv EXCEPT ![i] = [@ EXCEPT !.timer = "fired"]]
  /\ UNCHANGED <<defaults, now, dom, last, client>>

\* the timer callback with one controller shared by all requests: the abort reaches
\* every request that is pending or reading its body
TimeoutCallback_SharedController(i) ==
  /\ NoMicrotask
  /\ inv[i].timer = "armed"
  /\ inv' = [j \in Invocations |->
               LET r == [inv[j] EXCEPT !.timer = IF j = i THEN "fired" ELSE @]
               IN  IF r.pc \in {"pending", "reading"}
                     THEN [r EXCEPT !.aborted = TRUE, !.error = "AbortError",
                                    !.pc = IF @ = "pending" THEN "rejected" ELSE "jsonRejected"]
                   ELSE IF j = i THEN [r EXCEPT !.aborted = TRUE]
                   ELSE r]
  /\ UNCHANGED <<defaults, now, dom, last, client>>

\* the timer callback of lines 244-246: controller.abort().  fetch rejects a promise
\* that is still pending with an AbortError; a body being read fails the same way
TimeoutCallback(i) ==
  /\ NoMicrotask
  /\ inv[i].timer = "armed"
  /\ inv' = [inv EXCEPT ![i] =
               [@ EXCEPT !.timer = "fired", !.aborted = TRUE,
                         !.pc = IF @ = "pending" THEN "rejected"
                                ELSE IF @ = "reading" THEN "jsonRejected" ELSE @,
                         !.error = IF inv[i].pc \in {"pending", "reading"}
                                     THEN "AbortError" ELSE @]]
  /\ UNCHANGED <<defaults, now, dom, last, client>>

\* the remote side answers with a status line: fetch's promise is fulfilled if it is
\* still pending; after an abort the answer is dropped
ResponseArrives(i, status) ==
  /\ NoMicrotask
  /\ inv[i].net = "inflight"
  /\ inv' = [inv EXCEPT ![i] =
               IF @.pc = "pending"
                 THEN [@ EXCEPT !.net = "answered", !.pc = "fulfilled", !.status = status]
                 ELSE [@ EXCEPT !.net = "answered"]]
  /\ UNCHANGED <<defaults, now, dom, last, client>>

\* the transport fails before any answer: fetch rejects with a TypeError
NetworkFails(i) ==
  /\ NoMicrotask
  /\ inv[i].net = "inflight"
  /\ inv[i].pc = "pending"
  /\ inv' = [inv EXCEPT ![i] = [@ EXCEPT !.net = "failed", !.pc = "rejected",
                                         !.error = "TypeError"]]
  /\ UNCHANGED <<defaults, now, dom, last, client>>

\* response.json() settles
BodyArrives(i, body) ==
  /\ NoMicrotask
  /\ inv[i].pc = "reading"
  /\ inv' = [inv EXCEPT ![i] =
               IF body = "unparsable"
                 THEN [@ EXCEPT !.pc = "jsonRejected", !.error = "SyntaxError"]
                 ELSE [@ EXCEPT !.pc = "jsonResolved", !.result = body]]
  /\ UNCHANGED <<defaults, now, dom, last, client>>

\* the first reaction without clearTimeout(timeoutId): the timer stays armed
ThenResponse_NoClear(i) ==
  /\ inv[i].pc = "fulfilled"
  /\ LET r == inv[i]
     IN  IF r.status \in {200, 422}
           THEN /\ inv' = [inv EXCEPT ![i] = [r EXCEPT !.pc = "reading"]]
                /\ UNCHANGED dom
           ELSE /\ inv' = [inv EXCEPT ![i] =
                             Finish(r, "ServerError",
                                    LogEntry("API request failed with status: ", "", r.status))]
                /\ Render(i, getPlaceholder("API request failed with status: ", r.status, i))
  /\ UNCHANGED <<defaults, now, last, client>>

\* .then((response) => ...), lines 260-291
ThenResponse(i) ==
  /\ inv[i].pc = "fulfilled"
  /\ LET r == clearTimeout(inv[i])
     IN  IF r.status \in {200, 422}
           THEN /\ inv' = [inv EXCEPT ![i] = [r EXCEPT !.pc = "reading"]]
                /\ UNCHANGED dom
           ELSE /\ inv' = [inv EXCEPT ![i] =
                             Finish(r, "ServerError",
                                    LogEntry("API request failed with status: ", "", r.status))]
                /\ Render(i, getPlaceholder("API request failed with status: ", r.status, i))
  /\ UNCHANGED <<defaults, now, last, client>>

\* .then((result: APIResponse) => ...), lines 264-272; does: what the callback
\* does if it is called
ThenJson200(i, does) ==
  /\ inv[i].pc = "jsonResolved"
  /\ inv[i].status = 200
  /\ IF inv[i].result = "nodata"
       THEN /\ inv' = [inv EXCEPT ![i] = [@ EXCEPT !.pc = "jsonRejected",
                                                   !.error = "TypeError"]]
            /\ UNCHANGED dom
       ELSE /\ Render(i, ImageNode(MOCK_IMAGE_URL, i))
            /\ inv' = [inv EXCEPT ![i] =
                 LET r == [@ EXCEPT !.outcomes = Append(@, "Success")]
                     c == [r EXCEPT !.cbCalls = @ + 1, !.cbArg = r.result]
                 IN  IF r.cb = "null" THEN [r EXCEPT !.pc = "done"]
                     ELSE IF does = "returns" THEN [c EXCEPT !.pc = "done"]
                     ELSE [c EXCEPT !.pc = "jsonRejected", !.error = "thrown by callback"]]
  /\ UNCHANGED <<defaults, now, last, client>>

\* .catch(e => ...), lines 273-276
CatchJson200(i) ==
  /\ inv[i].pc = "jsonRejected"
  /\ inv[i].status = 200
  /\ inv' = [inv EXCEPT ![i] =
               Finish(@, "ParseFailure", LogEntry("Error parsing API response:", @.error, 0))]
  /\ Render(i, getPlaceholder("Error parsing API response", 0, i))
  /\ UNCHANGED <<defaults, now, last, client>>

\* .then(errorResult => ...), lines 278-281
ThenJson422(i) ==
  /\ inv[i].pc = "jsonResolved"
  /\ inv[i].status = 422
  /\ inv' = [inv EXCEPT ![i] =
               Finish(@, "ClientError", LogEntry("Invalid parameters:", @.result, 0))]
  /\ Render(i, getPlaceholder("Invalid parameters sent to API", 0, i))
  /\ UNCHANGED <<defaults, now, last, client>>

\* .catch(e => ...), lines 281-284
CatchJson422(i) ==
  /\ inv[i].pc = "jsonRejected"
  /\ inv[i].status = 422
  /\ inv' = [inv EXCEPT ![i] =
               Finish(@, "ParseFailure",
                      LogEntry("Error parsing API error response (422):", @.error, 0))]
  /\ Render(i, getPlaceholder("Invalid parameters sent to API (unable to parse error details)",
                              0, i))
  /\ UNCHANGED <<defaults, now, last, client>>

\* the outer catch with a retry: a failed fetch is sent once more before it is reported
CatchFetch_Retry(i) ==
  /\ inv[i].pc = "rejected"
  /\ LET r == clearTimeout(inv[i])
     IN  IF r.error = "AbortError"
           THEN /\ inv' = [inv EXCEPT ![i] =
                             Finish(r, "Timeout", LogEntry("API request timed out", "", 0))]
                /\ Render(i, getPlaceholder("API request timed out", 0, i))
         ELSE IF r.requests < 2
           THEN /\ inv' = [inv EXCEPT ![i] = request(r, r.body)]
                /\ UNCHANGED dom
           ELSE /\ inv' = [inv EXCEPT ![i] =
                             Finish(r, "NetworkFailure",
                                    LogEntry("Network error occurred or other fetch error:",
                                             r.error, 0))]
                /\ Render(i, getPlaceholder("Network error occurred", 0, i))
  /\ UNCHANGED <<defaults, now, last, client>>

\* .catch((error) => ...), lines 292-301
CatchFetch(i) ==
  /\ inv[i].pc = "rejected"
  /\ LET r == clearTimeout(inv[i])
     IN  IF r.error = "AbortError"
           THEN /\ inv' = [inv EXCEPT ![i] =
                             Finish(r, "Timeout", LogEntry("API request timed out", "", 0))]
                /\ Render(i, getPlaceholder("API request timed out", 0, i))
           ELSE /\ inv' = [inv EXCEPT ![i] =
                             Finish(r, "NetworkFailure",
                                    LogEntry("Network error occurred or other fetch error:",
                                             r.error, 0))]
                /\ Render(i, getPlaceholder("Network error occurred", 0, i))
  /\ UNCHANGED <<defaults, now, last, client>>

----------------------------------------------------------------------------
(* Inputs.  For every leaf of a configuration a few values a caller may    *)
(* pass; the first two of each leaf (one in its domain and not the         *)
(* default, one outside it) are also drawn together with a second leaf.    *)

Sizes ==
  <<Txt(<<"1", "0", "p", "x">>), Txt(<<"1", "0">>), Txt(<<"1", ".", "5", "e", "m">>),
    Txt(<<"t", "a", "l", "l">>), Txt(<<>>), Undef>>

Dates ==
  <<Txt(<<"2", "0", "2", "3", "-", "0", "1", "-", "0", "1", "T", "0", "0", ":", "0", "0", ":", "0", "0", "Z">>),
    Txt(<<"2", "0", "2", "3", "-", "1", "3", "-", "0", "1", "T", "0", "0", ":", "0", "0", ":", "0", "0", "Z">>),
    Txt(<<"2", "0", "2", "3", "-", "0", "2", "-", "0", "1", "T", "1", "0", ":", "2", "0", ":", "3", "0", ".", "5", "+", "0", "1", ":", "0", "0">>),
    Txt(<<"t", "o", "d", "a", "y">>),
    Txt(<<>>)>>

Locators == <<Str("#w"), Str("#missing"), Str("")>>

MoonLeaves ==
  (<<"element">> :> Locators)
  @@ (<<"format">> :> <<Str("svg"), Str("PNG")>>)
  @@ (<<"style", "moonStyle">> :> <<Str("sketch"), Str("invalid-style"), Undef>>)
  @@ (<<"style", "backgroundStyle">> :> <<Str("solid"), Str("Solid")>>)
  @@ (<<"style", "backgroundColor">> :> <<Txt(<<"r", "e", "d">>), Txt(<<"#", "f", "f", "g">>), Txt(<<"#", "0", "A", "0">>), Undef, Null>>)
  @@ (<<"style", "headingColor">> :> <<Txt(<<"#", "0", "0", "f", "f", "7", "F">>), Txt(<<"#", "1", "2">>)>>)
  @@ (<<"style", "textColor">> :> <<Txt(<<"R", "G", "B", "A", "(", "1", ",", " ", "2", ",", "3", ",", ".", "5", ")">>), Txt(<<"r", "g", "b", "(", ")">>)>>)
  @@ (<<"style", "width">> :> Sizes)
  @@ (<<"style", "height">> :> Sizes)
  @@ (<<"observer", "latitude">> :>
        <<Num(9000), Num(9001), Num(-9000), Num(-9001), Num(20000), Num(1050), NaN, Undef>>)
  @@ (<<"observer", "longitude">> :>
        <<Num(-18000), Num(-18001), Num(18000), Num(18001), Num(2000), Txt(<<"2", "0">>)>>)
  @@ (<<"observer", "date">> :> Dates)
  @@ (<<"view", "type">> :> <<Str("landscape-simple"), Str("area")>>)

StarLeaves ==
  (<<"element">> :> Locators)
  @@ (<<"style", "type">> :> <<Str("red"), Str("RED")>>)
  @@ (<<"style", "width">> :> Sizes)
  @@ (<<"style", "height">> :> Sizes)
  @@ (<<"observer", "latitude">> :> <<Num(3400), Num(20000), Num(-9000), NaN>>)
  @@ (<<"observer", "longitude">> :> <<Num(-11800), Num(20000), Num(18000), Num(-18001)>>)
  @@ (<<"observer", "date">> :> Dates)
  @@ (<<"view", "type">> :> <<Str("constellation"), Str("invalid-view"), Str("area")>>)
  @@ (<<"view", "parameters", "zoom">> :>
        <<Num(500), Num(9900), Num(100), Num(1000), Num(99), Num(1001), NaN>>)
  @@ (<<"view", "parameters", "constellation">> :>
        <<Txt(<<"t", "a", "u">>), Txt(<<"I", "N", "V", "A", "L", "I", "D">>), Txt(<<"T", "A", "U">>), Txt(<<"o", "1", "i">>), Num(700),
          Txt(<<"C", "m", "a">>), Txt(<<"u", "m">>), Txt(<<>>), Null, Undef>>)
  @@ (<<"view", "parameters", "position", "equatorial", "rightAscension">> :>
        <<Num(500), Num(2401), Num(0), Num(2400), Num(-1)>>)
  @@ (<<"view", "parameters", "position", "equatorial", "declination">> :>
        <<Num(-3000), Num(9001), Num(-9000), Num(9000)>>)

NoLeaves == [q \in {} |-> Undef]

Singles(L) == UNION {{(q :> L[q][a]) : a \in 1..Len(L[q])} : q \in DOMAIN L}

\* two leaves of the same top-level record (style, observer or view)
Paired(p, q) == p # q /\ Len(p) >= 2 /\ Len(q) >= 2 /\ p[1] = q[1]

Pairs(L) ==
  {(pq[1] :> L[pq[1]][ab[1]]) @@ (pq[2] :> L[pq[2]][ab[2]]) :
     pq \in {x \in (DOMAIN L) \X (DOMAIN L) : Paired(x[1], x[2])}, ab \in (1..2) \X (1..2)}

MoonConfigs == {NoLeaves} \cup Singles(MoonLeaves) \cup Pairs(MoonLeaves)

\* every drawn constellation code, in constellation view
ConstellationConfigs ==
  {(<<"view", "type">> :> Str("constellation")) @@ (ConstellationCode :> code) :
     code \in Range(StarLeaves[ConstellationCode])}

StarConfigs ==
  {NoLeaves} \cup Singles(StarLeaves) \cup Pairs(StarLeaves) \cup ConstellationConfigs

Repeat(ch, n) == [k \in 1..n |-> ch]

\* what the page passes to the constructor: no token, an empty one, 'short', and
\* tokens of 9, 10 and 11 characters
ClientConfigs ==
  {Empty, [basicToken |-> Null], [basicToken |-> Txt(<<>>)],
   [basicToken |-> Txt(<<"s", "h", "o", "r", "t">>)]}
  \cup {[basicToken |-> Txt(Repeat("x", n))] : n \in {9, 10, 11}}

\* the configurations the request life cycle is explored with
RequestConfigs ==
  {NoLeaves, (<<"element">> :> Str("#w")), (<<"element">> :> Str("#missing")),
   (<<"element">> :> Str("#w")) @@ (<<"observer", "latitude">> :> Num(20000)),
   (<<"element">> :> Str("#w")) @@ (<<"view", "type">> :> Str("constellation"))
     @@ (<<"observer", "date">> :> Dates[1])}

----------------------------------------------------------------------------
(* Specifications *)

Instants == 0..MaxClock

Construct == \E params \in ClientConfigs : Constructor(params)

Call ==
  \E u \in RequestConfigs, cb \in Callbacks, t \in Instants :
    MoonPhase(u, cb, t) \/ StarChart(u, cb, t)

Task ==
  \E i \in Invocations :
    \/ TimeoutCallback(i)
    \/ NetworkFails(i)
    \/ \E status \in Statuses : ResponseArrives(i, status)
    \/ \E body \in Bodies : BodyArrives(i, body)

Reaction ==
  \E i \in Invocations :
    \/ ThenResponse(i)
    \/ \E does \in Behaviours : ThenJson200(i, does)
    \/ CatchJson200(i)
    \/ ThenJson422(i)
    \/ CatchJson422(i)
    \/ CatchFetch(i)

Next == Construct \/ Call \/ Task \/ Reaction

\* the request life cycle of up to MaxInv overlapping invocations
Spec == Init /\ [][Next]_vars

FirstCall == \A i \in Invocations : inv[i].pc = "idle"

CallMoon == \E u \in MoonConfigs, t \in Instants : FirstCall /\ MoonPhase(u, "function", t)

CallStar == \E u \in StarConfigs, t \in Instants : FirstCall /\ StarChart(u, "function", t)

NextCfg == Construct \/ CallMoon \/ CallStar

\* merge and validation: one call on the freshly loaded page, for every drawn
\* configuration and instant
SpecCfg == Init /\ [][NextCfg]_vars

----------------------------------------------------------------------------
(* The request life cycle: C1 to C5, under Spec *)

\* what invocation i has put on the page and is still there
NodesBy(i) == {n \in UNION {Range(dom[e].children) : e \in DomElements} : n.by = i}

TimeoutMessage(i) == getPlaceholder("API request timed out", 0, i)

\* C1: every invocation that sends a request produces exactly one terminal outcome:
\* over its whole life its element receives one terminal rendering (the image or an
\* error placeholder) from it and never a second one, whatever the status, the body
\* and the callback do.
C1_ExactlyOneTerminalOutcome ==
  \A i \in Invocations :
    /\ Len(inv[i].outcomes) <= 1
    /\ inv[i].pc = "done" => Len(inv[i].outcomes) = 1

\* C2: the callback is called at most once per invocation, with the parsed body, and
\* only in an invocation whose outcome is Success: never in one whose outcome is
\* ClientError, ServerError, Timeout, NetworkFailure or ParseFailure, and never when
\* the element was not found.
C2_CallbackOnSuccessOnly ==
  \A i \in Invocations :
    /\ inv[i].cbCalls <= 1
    /\ inv[i].cbCalls = 1 => inv[i].cbArg = inv[i].result
    /\ inv[i].cbCalls > 0 => \A k \in 1..Len(inv[i].outcomes) : inv[i].outcomes[k] = "Success"
    /\ inv[i].pc = "notfound" => inv[i].cbCalls = 0

C3Step(i) ==
  /\ (inv[i].timer = "armed" /\ inv'[i].timer = "fired" /\ inv[i].net = "inflight")
       => /\ inv'[i].aborted
          /\ inv'[i].pc = "rejected"
          /\ inv'[i].error = "AbortError"
  /\ (inv[i].timer = "fired" /\ inv[i].pc = "rejected" /\ inv'[i].pc # "rejected")
       => /\ inv'[i].pc = "done"
          /\ inv'[i].outcomes = <<"Timeout">>
          /\ dom'[inv[i].el].children = <<TimeoutMessage(i)>>
          /\ inv'[i].cbCalls = 0
  /\ (inv[i].timer = "fired" /\ inv[i].pc = "done")
       => /\ inv'[i].pc = "done"
          /\ inv'[i].outcomes = <<"Timeout">>
          /\ inv'[i].cbCalls = 0
          /\ NodesBy(i)' \subseteq {TimeoutMessage(i)}

\* C3: when the timer of an invocation fires before any response has arrived, the
\* request is aborted, the outcome is Timeout and the element shows 'API request
\* timed out'; from then on no step (a late response included) makes the invocation
\* render anything else or call the callback.
C3_TimeoutIsFinal == [][\A i \in Invocations : C3Step(i)]_vars

\* the timer fired, the time-out is on the page, and the response came after it
C3_Witness ==
  \E i \in Invocations :
    /\ inv[i].timer = "fired"
    /\ inv[i].aborted
    /\ inv[i].net = "answered"
    /\ inv[i].outcomes = <<"Timeout">>
    /\ inv[i].cbCalls = 0
    /\ dom[inv[i].el].children = <<TimeoutMessage(i)>>

\* C4: a call whose locator resolves to no element ends early: the error naming the
\* locator is logged, no request is sent, no timer is armed, nothing is put on the
\* page and the callback is not called.
C4_ElementNotFound ==
  \A i \in Invocations :
    (inv[i].pc # "idle" /\ inv[i].el \notin DomElements)
      => /\ inv[i].pc = "notfound"
         /\ inv[i].log = <<LogEntry("Target element not found", inv[i].el, 0)>>
         /\ inv[i].requests = 0
         /\ inv[i].net = "none"
         /\ inv[i].timer = "none"
         /\ NodesBy(i) = {}
         /\ inv[i].outcomes = <<>>
         /\ inv[i].cbCalls = 0

\* a call with a locator that matches nothing was made, after one that rendered
C4_Witness ==
  \E i, j \in Invocations :
    /\ inv[i].pc = "notfound"
    /\ inv[i].el = "#missing"
    /\ inv[i].cb = "function"
    /\ inv[j].pc = "done"

\* C5: an invocation sends exactly one request when its element resolves, whatever
\* was invalid in the user configuration, and none otherwise; no outcome makes it
\* send a second one.
C5_OneRequest ==
  \A i \in Invocations :
    inv[i].requests = IF inv[i].pc \in {"idle", "notfound"} THEN 0 ELSE 1

\* the latest call had an invalid field, sent its request and ended in a failure
C5_Witness ==
  /\ last.i \in Invocations
  /\ last.warns # <<>>
  /\ inv[last.i].pc = "done"
  /\ inv[last.i].outcomes = <<"NetworkFailure">>
  /\ inv[last.i].requests = 1

----------------------------------------------------------------------------
(* Merge and validation: C6 to C9 under SpecCfg, C10 under Spec.           *)
(* last.params is JSON.stringify(params), the body of the request the call *)
(* makes when its element is found.                                        *)

Sent(q) == At(last.params, q)

Present(q) == Sent(q) # Undef

Warned(paramName) ==
  \E k \in 1..Len(last.warns) :
    /\ last.warns[k].param = paramName
    /\ last.warns[k].widget = last.widget
    /\ last.warns[k].msg = "invalid"

ObserverLatitude == <<"observer", "latitude">>

ObserverLongitude == <<"observer", "longitude">>

ObserverDate == <<"observer", "date">>

ViewType == <<"view", "type">>

InSet(q, S) == Present(q) => Sent(q) \in S

InRange(q, lo, hi) ==
  Present(q) => (Sent(q).k = "num" /\ Sent(q).n >= lo * 100 /\ Sent(q).n <= hi * 100)

IsColor(q) == Present(q) => (Sent(q).k = "txt" /\ REGEX_CSS_COLOR(Sent(q).c))

IsDate(q) ==
  Present(q) => (Sent(q).k = "txt" /\ REGEX_ISO_DATE(Sent(q).c) /\ DateParses(Sent(q).c))

IsUpperCode(q) == Present(q) => (Sent(q).k = "txt" /\ Len(Sent(q).c) = 3 /\ All(Sent(q).c, Upper))

MoonInDomain ==
  /\ InSet(<<"format">>, {Str("png"), Str("svg")})
  /\ InSet(<<"style", "moonStyle">>, {Str("default"), Str("sketch"), Str("realistic")})
  /\ InSet(<<"style", "backgroundStyle">>, {Str("stars"), Str("solid"), Str("transparent")})
  /\ IsColor(<<"style", "backgroundColor">>)
  /\ IsColor(<<"style", "headingColor">>)
  /\ IsColor(<<"style", "textColor">>)
  /\ InRange(ObserverLatitude, -90, 90)
  /\ InRange(ObserverLongitude, -180, 180)
  /\ IsDate(ObserverDate)
  /\ InSet(ViewType, {Str("portrait-simple"), Str("portrait-detailed"),
                      Str("landscape-simple"), Str("landscape-detailed")})

StarInDomain ==
  /\ InSet(<<"style", "type">>, {Str("default"), Str("constellation"), Str("red"),
                                 Str("nightvision"), Str("sketch"), Str("white")})
  /\ InRange(ObserverLatitude, -90, 90)
  /\ InRange(ObserverLongitude, -180, 180)
  /\ IsDate(ObserverDate)
  /\ InSet(ViewType, {Str("area"), Str("constellation")})
  /\ InRange(RightAscension, 0, 24)
  /\ InRange(Declination, -90, 90)
  /\ InRange(Zoom, 1, 10)
  /\ IsUpperCode(ConstellationCode)

\* C6: whatever the user configuration, every field present in the configuration
\* that is sent holds a value of its declared domain (enums, colours, latitude,
\* longitude, a parseable ISO-8601 date, and for the star chart right ascension in
\* [0,24], declination in [-90,90], zoom in [1,10] and a 3-letter upper-case
\* constellation code).
C6_SentConfigurationInDomain ==
  last.sent => IF last.widget = "moonPhase" THEN MoonInDomain ELSE StarInDomain

NumberField(path, name, lo, hi, dflt) ==
  [path |-> path, name |-> name, lo |-> lo, hi |-> hi, dflt |-> dflt]

\* the ranges and the documented defaults, in hundredths
ObserverFields ==
  {NumberField(ObserverLatitude, "observer.latitude", -9000, 9000, 0),
   NumberField(ObserverLongitude, "observer.longitude", -18000, 18000, 0)}

AreaFields ==
  {NumberField(RightAscension, "view.parameters.position.equatorial.rightAscension",
               0, 2400, 1283),
   NumberField(Declination, "view.parameters.position.equatorial.declination",
               -9000, 9000, -1523),
   NumberField(Zoom, "view.parameters.zoom", 100, 1000, 300)}

NumberFields ==
  IF last.widget = "starChart" /\ Sent(ViewType) = Str("area")
    THEN ObserverFields \cup AreaFields
    ELSE ObserverFields

\* C7: for observer.latitude and observer.longitude of both widgets, and for right
\* ascension, declination and zoom of a star chart whose view.type is 'area': a
\* supplied value inside the range, bounds included, is sent unchanged and without a
\* warning; any other supplied value (out of range, NaN, not a number) is replaced by
\* the documented default (0, 0, 12.83, -15.23, 3) with a warning.
C7_NumberRange ==
  \A f \in NumberFields :
    f.path \in DOMAIN last.user
      => IF /\ last.user[f.path].k = "num"
            /\ last.user[f.path].n >= f.lo
            /\ last.user[f.path].n <= f.hi
           THEN Sent(f.path) = last.user[f.path] /\ ~Warned(f.name)
           ELSE Sent(f.path) = Num(f.dflt) /\ Warned(f.name)

\* a latitude on the bound is sent as it is, beside a longitude that was replaced
C7_Witness ==
  /\ last.widget = "moonPhase"
  /\ last.sent
  /\ DOMAIN last.user = {ObserverLatitude, ObserverLongitude}
  /\ last.user[ObserverLatitude] = Num(9000)
  /\ last.user[ObserverLongitude] = Num(-18001)
  /\ Sent(ObserverLatitude) = Num(9000)
  /\ Sent(ObserverLongitude) = Num(0)
  /\ Warned("observer.longitude")

EnumField(path, name, allowed, dflt) ==
  [path |-> path, name |-> name, allowed |-> allowed, dflt |-> dflt]

EnumFields ==
  IF last.widget = "moonPhase"
    THEN {EnumField(<<"format">>, "format", {"png", "svg"}, "png"),
          EnumField(<<"style", "moonStyle">>, "style.moonStyle",
                    {"default", "sketch", "realistic"}, "default"),
          EnumField(<<"style", "backgroundStyle">>, "style.backgroundStyle",
                    {"stars", "solid", "transparent"}, "stars"),
          EnumField(ViewType, "view.type",
                    {"portrait-simple", "portrait-detailed", "landscape-simple",
                     "landscape-detailed"}, "portrait-simple")}
    ELSE {EnumField(<<"style", "type">>, "style.type",
                    {"default", "constellation", "red", "nightvision", "sketch", "white"},
                    "default"),
          EnumField(ViewType, "view.type", {"area", "constellation"}, "area")}

\* C8: for every enum field, a supplied value that is a member of the allowed set
\* (the comparison distinguishes case) is sent unchanged and without a warning; any
\* other supplied value is replaced by the field's default with a warning.
C8_StringEnum ==
  \A f \in EnumFields :
    f.path \in DOMAIN last.user
      => IF last.user[f.path].k = "str" /\ last.user[f.path].s \in f.allowed
           THEN Sent(f.path) = last.user[f.path] /\ ~Warned(f.name)
           ELSE Sent(f.path) = Str(f.dflt) /\ Warned(f.name)

\* 'sketch' is sent as it is, beside 'Solid', which differs from a member by case only
C8_Witness ==
  /\ last.widget = "moonPhase"
  /\ last.sent
  /\ DOMAIN last.user = {<<"style", "moonStyle">>, <<"style", "backgroundStyle">>}
  /\ last.user[<<"style", "moonStyle">>] = Str("sketch")
  /\ last.user[<<"style", "backgroundStyle">>] = Str("Solid")
  /\ Sent(<<"style", "moonStyle">>) = Str("sketch")
  /\ Sent(<<"style", "backgroundStyle">>) = Str("stars")
  /\ Warned("style.backgroundStyle")

MoonDefaultLeaves ==
  {<<"element">>, <<"format">>, <<"style", "moonStyle">>, <<"style", "backgroundStyle">>,
   <<"style", "backgroundColor">>, <<"style", "headingColor">>, <<"style", "textColor">>,
   ObserverLatitude, ObserverLongitude, ObserverDate, ViewType}

StarDefaultLeaves ==
  {<<"element">>, <<"style", "type">>, ObserverLatitude, ObserverLongitude, ObserverDate,
   ViewType, Zoom, RightAscension, Declination}

Merged(q) == At(last.merged, q)

\* the call-time instant as the merge writes it
CallInstant == Txt(toISOString(last.at))

\* the default of a leaf: the call-time instant for observer.date, else the member of
\* the widget's defaults as they were when the script was loaded
DefaultLeaf(q) ==
  IF q = ObserverDate THEN CallInstant
  ELSE IF last.widget = "moonPhase" THEN Read(DEFAULT_MOON_PHASE_PARAMS, MoonId, q)
  ELSE Read(DEFAULT_STAR_CHART_PARAMS, StarId, q)

OmittedLeaves ==
  (IF last.widget = "moonPhase" THEN MoonDefaultLeaves ELSE StarDefaultLeaves)
    \ DOMAIN last.user

\* C9: the merge is field by field at every nesting level: in the merged configuration
\* every leaf the user supplies has the user's value and every leaf the user omits has
\* the default, so a leaf of a nested record never removes or resets its siblings.
C9_Merge ==
  last.i # 0
    => /\ \A q \in DOMAIN last.user : Merged(q) = last.user[q]
       /\ \A q \in OmittedLeaves : Merged(q) = DefaultLeaf(q)

\* What holds of the merge: every leaf the user supplies has the user's value, except
\* an observer.date that is falsy (the empty string, undefined), which the merge of
\* lines 315 and 380 takes for an omitted one; every omitted leaf has the default.
MergeApartFromFalsyDate ==
  last.i # 0
    => /\ \A q \in DOMAIN last.user :
            Merged(q) = IF q = ObserverDate /\ ~Truthy(last.user[q])
                          THEN CallInstant
                          ELSE last.user[q]
       /\ \A q \in OmittedLeaves : Merged(q) = DefaultLeaf(q)

\* C10: after any sequence of moonPhase and starChart calls, every member of
\* DEFAULT_MOON_PHASE_PARAMS and DEFAULT_STAR_CHART_PARAMS, at every nesting level,
\* has the value it had when the script was loaded.
C10_DefaultsUnchanged == defaults = DEFAULT_MOON_PHASE_PARAMS @@ DEFAULT_STAR_CHART_PARAMS

\* two calls were made, the later one a star chart in constellation view, whose
\* validation wrote the constellation code into params.view.parameters
C10_Witness ==
  /\ \A i \in 1..2 : inv[i].pc # "idle"
  /\ last.i = 2
  /\ last.widget = "starChart"
  /\ Sent(ViewType) = Str("constellation")
  /\ Sent(ConstellationCode) = defaultConstellationCode

----------------------------------------------------------------------------
(* C11 to C20 *)

\* the warnings of the latest call that name a parameter, whatever their wording
WarningsAbout(paramName) ==
  {k \in 1..Len(last.warns) : last.warns[k].param = paramName}

Supplied(q) == IF q \in DOMAIN last.user THEN last.user[q] ELSE Undef

ThreeLetters(v) == v.k = "txt" /\ Len(v.c) = 3 /\ All(v.c, Letters)

\* C11: in a starChart call whose validated view.type is 'constellation', a supplied
\* code of exactly three letters, in any case, is sent upper-cased without a warning;
\* a missing or non-string code, and a string that is not three letters, are replaced
\* by 'ORI' with exactly one warning.
C11_ConstellationCode ==
  (last.widget = "starChart" /\ Sent(ViewType) = Str("constellation"))
    => IF ThreeLetters(Supplied(ConstellationCode))
         THEN /\ Sent(ConstellationCode).k = "txt"
              /\ All(Sent(ConstellationCode).c, Upper)
              /\ toLowerCase(Sent(ConstellationCode).c)
                   = toLowerCase(Supplied(ConstellationCode).c)
              /\ WarningsAbout("view.parameters.constellation") = {}
         ELSE /\ Sent(ConstellationCode) = Txt(<<"O", "R", "I">>)
              /\ Cardinality(WarningsAbout("view.parameters.constellation")) = 1

\* 'Cma' was supplied in constellation view and 'CMA' is sent
C11_Witness ==
  /\ last.widget = "starChart"
  /\ last.sent
  /\ Sent(ViewType) = Str("constellation")
  /\ Supplied(ConstellationCode) = Txt(<<"C", "m", "a">>)
  /\ Sent(ConstellationCode) = Txt(<<"C", "M", "A">>)
  /\ last.warns = <<>>

\* C12: the constructor throws exactly when basicToken is absent or shorter than 10
\* characters: it then throws 'basicToken must be set during construction' and there
\* is no client; with a token of 10 characters or more there is a client.
C12_Constructor ==
  client.state # "none"
    => IF \/ "basicToken" \notin DOMAIN client.params
          \/ client.params.basicToken.k # "txt"
          \/ Len(client.params.basicToken.c) <= 9
         THEN /\ client.state = "threw"
              /\ client.error = "basicToken must be set during construction"
              /\ \A i \in Invocations : inv[i].pc = "idle"
         ELSE client.state = "constructed" /\ client.error = "none"

\* a token of 9 characters was refused, one of 10 accepted, and the client was used
C12_Witness ==
  /\ client.state = "constructed"
  /\ Len(client.params.basicToken.c) = 10
  /\ \E i \in Invocations : inv[i].pc # "idle"

\* the rendering the claim gives for what happened to the request of r; a 200 body
\* that is JSON without data.imageUrl is none of the claim's cases
Rendering(r, i) ==
  IF r.aborted /\ r.status = 0 THEN getPlaceholder("API request timed out", 0, i)
  ELSE IF r.net = "failed" THEN getPlaceholder("Network error occurred", 0, i)
  ELSE IF r.status = 200 /\ r.result = "image" THEN ImageNode(MOCK_IMAGE_URL, i)
  ELSE IF r.status = 200 THEN getPlaceholder("Error parsing API response", 0, i)
  ELSE IF r.status = 422 /\ r.result # "none"
    THEN getPlaceholder("Invalid parameters sent to API", 0, i)
  ELSE IF r.status = 422
    THEN getPlaceholder("Invalid parameters sent to API (unable to parse error details)", 0, i)
  ELSE getPlaceholder("API request failed with status: ", r.status, i)

SevenRenderings(i) ==
  {getPlaceholder("API request timed out", 0, i),
   getPlaceholder("Network error occurred", 0, i),
   ImageNode(MOCK_IMAGE_URL, i),
   getPlaceholder("Error parsing API response", 0, i),
   getPlaceholder("Invalid parameters sent to API", 0, i),
   getPlaceholder("Invalid parameters sent to API (unable to parse error details)", 0, i),
   getPlaceholder("API request failed with status: ", 500, i)}

C13Step(i) ==
  (inv[i].pc # "done" /\ inv'[i].pc = "done" /\ inv'[i].result # "nodata")
    => /\ dom'[inv[i].el].children = <<Rendering(inv'[i], i)>>
       /\ Cardinality(SevenRenderings(i)) = 7

\* C13: when an invocation ends, the content of its element is determined by the
\* outcome alone, whatever the element held before: 200 with a parsed body gives
\* exactly the image of the returned imageUrl (no 'Loading...'), 200 with an
\* unparsable body 'Error parsing API response', 422 'Invalid parameters sent to API'
\* (or its 'unable to parse' variant), another status N 'API request failed with
\* status: N', an abort 'API request timed out', another transport failure
\* 'Network error occurred'; the seven renderings are pairwise distinct.
C13_ContentByOutcome == [][\A i \in Invocations : C13Step(i)]_vars

\* C14: the element's content is replaced as a whole at every transition of an
\* invocation, Idle -> Loading included: right after a call has entered Loading the
\* 'Loading...' placeholder is the only content of its element, whatever the element
\* held before (content of the page, or what an earlier invocation left).
C14_LoadingReplacesContent ==
  [][\A i \in Invocations :
       (inv[i].pc = "idle" /\ inv'[i].pc = "pending")
         => dom'[inv'[i].el].children = <<getPlaceholder("Loading...", 0, i)>>]_vars

\* the invocations that target element e
Targeting(e) == {i \in Invocations : inv[i].pc # "idle" /\ inv[i].el = e}

\* some invocation targets e and every one that does has ended
AllEnded(e) == Targeting(e) # {} /\ \A i \in Targeting(e) : inv[i].pc = "done"

C15Step(e) ==
  /\ \A i \in Invocations :
       (inv[i].pc # "done" /\ inv'[i].pc = "done" /\ inv[i].el = e /\ AllEnded(e)')
         => /\ Len(dom'[e].children) = 1
            /\ dom'[e].children[1].by = i
            /\ dom'[e].children[1].text # "Loading..."
  /\ (AllEnded(e) /\ AllEnded(e)') => dom'[e] = dom[e]

\* C15: when invocations that target the same element overlap, in whatever order
\* their responses, time-outs and failures come, then once all of them have ended
\* the element holds exactly the rendering of the one that ended last and nothing of
\* the others: no stale image, no leftover 'Loading...'.
C15_LastCompletionWins == [][\A e \in DomElements : C15Step(e)]_vars

\* two invocations on one element have ended and the element shows the image of the
\* one that was called first: it ended after the other, so they overlapped
C15_Witness ==
  /\ inv[1].pc = "done" /\ inv[2].pc = "done"
  /\ inv[1].el = inv[2].el
  /\ inv[2].outcomes = <<"ServerError">>
  /\ dom[inv[1].el].children = <<ImageNode(MOCK_IMAGE_URL, 1)>>

\* C16: in every state in which an invocation has a terminal outcome its timer is not
\* armed; an invocation never has more than one timer or more than one request in
\* flight.
C16_TimerCleared ==
  \A i \in Invocations :
    /\ inv[i].outcomes # <<>> => inv[i].timer \in {"cleared", "fired"}
    /\ inv[i].pc = "done" => inv[i].net # "inflight" \/ inv[i].aborted
    /\ inv[i].requests <= 1
    /\ inv[i].timer = "armed" => inv[i].requests = 1
    /\ inv[i].net = "inflight" => inv[i].requests = 1

\* one invocation ended with its timer cleared while the timer of another is armed
C16_Witness ==
  \E i, j \in Invocations :
    /\ inv[i].pc = "done"
    /\ inv[i].outcomes = <<"ClientError">>
    /\ inv[i].timer = "cleared"
    /\ inv[j].timer = "armed"

NoUserDate(call) == ObserverDate \notin DOMAIN call.user

DateSent(call) == At(call.params, ObserverDate)

\* the date the defaults got when the script was loaded
LoadTimeDate == Read(DEFAULT_MOON_PHASE_PARAMS, MoonId, ObserverDate)

C17Step ==
  last'.i # last.i
    => /\ NoUserDate(last')
            => /\ DateSent(last') = Txt(toISOString(last'.at))
               /\ last'.at > 0 => DateSent(last') # LoadTimeDate
       /\ (last.i # 0 /\ NoUserDate(last) /\ NoUserDate(last') /\ last'.at # last.at)
            => DateSent(last') # DateSent(last)
       /\ (~NoUserDate(last')
           /\ REGEX_ISO_DATE(last'.user[ObserverDate].c)
           /\ DateParses(last'.user[ObserverDate].c))
            => DateSent(last') = last'.user[ObserverDate]

\* C17: without a user observer.date, the date a call sends is the instant of that
\* call, not the instant the defaults were created: two calls at different instants
\* send different dates, each its own call time; a valid user date is sent unchanged.
C17_DateIsCallTime == [][C17Step]_vars

\* the second call, made after the script was loaded and without a user date, sent its
\* own instant
C17_Witness ==
  /\ last.i = 2
  /\ last.at > 0
  /\ last.sent
  /\ NoUserDate(last)
  /\ DateSent(last) = Txt(toISOString(last.at))
  /\ DateSent(last) # LoadTimeDate

\* params of the latest call after its merge, validation and element default
Validated ==
  IF last.widget = "moonPhase"
    THEN MoonParams(UserHeap(last.user) @@ defaults, last.at)
    ELSE StarParams(UserHeap(last.user) @@ defaults, last.at)

\* the validation rules of the widget run once more, at instant t, on that output
Revalidated(t) ==
  IF last.widget = "moonPhase"
    THEN MoonValidate([h |-> Validated.h, w |-> <<>>], t)
    ELSE StarValidate([h |-> Validated.h, w |-> <<>>], t)

\* C18: validation is idempotent: the validation rules of moonPhase or starChart,
\* applied to the output of validation, change no field and emit no warning, in both
\* views of the star chart.
C18_ValidationIdempotent ==
  last.i # 0
    => /\ Json(Validated.h, ParamsId) = last.params
       /\ \A t \in Instants :
            /\ Revalidated(t).w = <<>>
            /\ Tree(Revalidated(t).h, ParamsId) = Tree(Validated.h, ParamsId)

\* validation turned 'tau' into 'TAU' in constellation view and replaced an invalid
\* view.type before; run again, it changes nothing
C18_Witness ==
  /\ last.widget = "starChart"
  /\ Supplied(ConstellationCode) = Txt(<<"t", "a", "u">>)
  /\ Supplied(ViewType) = Str("constellation")
  /\ Sent(ConstellationCode) = Txt(<<"T", "A", "U">>)
  /\ Revalidated(MaxClock).w = <<>>
  /\ Tree(Revalidated(MaxClock).h, ParamsId) = Tree(Validated.h, ParamsId)

\* a member as JSON.stringify writes it: NaN as null
AsSent(v) == IF v.k = "nan" THEN Null ELSE v

\* the range rule was applied to the merged member: kept if in range, else the default
\* and a warning
RangeApplied(f) ==
  IF Merged(f.path).k = "num" /\ Merged(f.path).n >= f.lo /\ Merged(f.path).n <= f.hi
    THEN Sent(f.path) = Merged(f.path) /\ WarningsAbout(f.name) = {}
    ELSE Sent(f.path) = Num(f.dflt) /\ Cardinality(WarningsAbout(f.name)) = 1

\* no rule touched the member
SentAsMerged(q, paramName) ==
  Sent(q) = AsSent(Merged(q)) /\ WarningsAbout(paramName) = {}

\* C19: starChart applies the view.type rule first and the view-dependent rules to the
\* validated type.  With 'area' (also when an invalid user view.type became 'area')
\* the right ascension, declination and zoom rules are applied and no constellation
\* rule; with 'constellation' only the constellation-code rule is applied, and
\* position and zoom are sent as merged, with no range check and no warning.
C19_ViewDependentRules ==
  last.widget = "starChart"
    => /\ Sent(ViewType) \in {Str("area"), Str("constellation")}
       /\ Sent(ViewType) = Str("area")
            => /\ \A f \in AreaFields : RangeApplied(f)
               /\ SentAsMerged(ConstellationCode, "view.parameters.constellation")
       /\ Sent(ViewType) = Str("constellation")
            => /\ \A f \in AreaFields : SentAsMerged(f.path, f.name)
               /\ Present(ConstellationCode) /\ IsUpperCode(ConstellationCode)

\* an invalid view.type became 'area' and the zoom rule then replaced zoom 99
C19_Witness ==
  /\ last.widget = "starChart"
  /\ Supplied(ViewType) = Str("invalid-view")
  /\ Supplied(Zoom) = Num(9900)
  /\ Sent(ViewType) = Str("area")
  /\ Sent(Zoom) = Num(300)
  /\ Warned("view.type")
  /\ Warned("view.parameters.zoom")

StyleWidth == <<"style", "width">>

StyleHeight == <<"style", "height">>

\* /^\d+(\.\d+)?(px|em|%|vh|vw)$/, written out for the sizes that are drawn
IsCssSize(v) ==
  v \in {Txt(<<"1", "0", "p", "x">>), Txt(<<"1", ".", "5", "e", "m">>)}

\* the size the widget gives its element when the caller gives none
BuiltInSize(q) ==
  IF last.widget = "starChart" THEN (IF q = StyleWidth THEN px800 ELSE px617)
  ELSE IF Sent(ViewType) = Str("portrait-simple")
    THEN (IF q = StyleWidth THEN px200 ELSE px260)
  ELSE (IF q = StyleWidth THEN px260 ELSE px160)

ElementSize(q) ==
  IF q = StyleWidth THEN dom[inv[last.i].el].width ELSE dom[inv[last.i].el].height

\* a matching size is kept, an absent one stays absent without a warning, an invalid
\* one is dropped with one warning; the element gets the kept size or the built-in one
SizeRuleHolds(q, paramName) ==
  /\ IF IsCssSize(Supplied(q))
       THEN Sent(q) = Supplied(q) /\ WarningsAbout(paramName) = {}
     ELSE IF Supplied(q) = Undef
       THEN ~Present(q) /\ WarningsAbout(paramName) = {}
     ELSE ~Present(q) /\ Cardinality(WarningsAbout(paramName)) = 1
  /\ last.sent
       => ElementSize(q) = IF IsCssSize(Supplied(q)) THEN Supplied(q).c ELSE BuiltInSize(q)

\* the fields that have a default to fall back on
DefaultedFields ==
  IF last.widget = "moonPhase"
    THEN MoonDefaultLeaves \ {<<"element">>}
    ELSE {<<"style", "type">>, ObserverLatitude, ObserverLongitude, ObserverDate, ViewType}

\* C20: style.width and style.height are the only fields whose invalid value is
\* dropped rather than defaulted: a value matching the CSS size pattern is kept, an
\* absent one stays absent without a warning, an invalid one becomes undefined with
\* one warning, is absent from the body, and the element gets the widget's built-in
\* size (200px x 260px for a 'portrait-simple' moon, 260px x 160px for another moon,
\* 800px x 617px for a star chart); every other validated field that the user
\* supplies is in the body, with the user's value or the default.
C20_OnlySizesAreDropped ==
  last.i # 0
    => /\ SizeRuleHolds(StyleWidth, "style.width")
       /\ SizeRuleHolds(StyleHeight, "style.height")
       /\ \A q \in DefaultedFields \cap DOMAIN last.user : Present(q)

\* the part of C20 about the two sizes themselves, which the code satisfies
SizesKeptOrDropped ==
  last.i # 0
    => /\ SizeRuleHolds(StyleWidth, "style.width")
       /\ SizeRuleHolds(StyleHeight, "style.height")

\* a size that does not match the pattern was supplied and the request went out
SizeDroppedState ==
  /\ last.sent
  /\ StyleWidth \in DOMAIN last.user
  /\ Supplied(StyleWidth) # Undef
  /\ ~IsCssSize(Supplied(StyleWidth))
  /\ ~Present(StyleWidth)

----------------------------------------------------------------------------
(* Concurrency and progress: C21 and C22 *)

\* the body a call sends when it is the only call on a freshly loaded page
SentAlone(widgetName, u, t) ==
  LET h == UserHeap(u) @@ (DEFAULT_MOON_PHASE_PARAMS @@ DEFAULT_STAR_CHART_PARAMS)
  IN  IF widgetName = "moonPhase" THEN Json(MoonParams(h, t).h, ParamsId)
      ELSE Json(StarParams(h, t).h, ParamsId)

Touched == {j \in Invocations : inv'[j] # inv[j]}

C21Step ==
  /\ Cardinality(Touched) <= 1
  /\ \A j \in Invocations :
       /\ (inv'[j].aborted /\ ~inv[j].aborted)
            => inv[j].timer = "armed" /\ inv'[j].timer = "fired"
       /\ inv[j].pc # "idle" => inv'[j].body = inv[j].body
       /\ (inv[j].pc = "idle" /\ inv'[j].pc = "pending")
            => inv'[j].body = SentAlone(last'.widget, last'.user, last'.at)

\* C21: concurrent invocations are independent.  A step (a timer firing, a network
\* event, a reaction, a call) changes the record of one invocation only: its outcome,
\* callback count and argument, timer and abort flag.  A request is aborted only by
\* its own timer firing.  The body an invocation sent never changes afterwards, and
\* it is the body the same call sends alone on a freshly loaded page, whatever the
\* other invocations were called with.
C21_Independent == [][C21Step]_vars

\* invocation 2 has timed out while invocation 1, on the same element and with
\* another body, is reading its 200 answer, not aborted, its timer cleared
C21_Witness ==
  /\ inv[2].outcomes = <<"Timeout">>
  /\ inv[2].timer = "fired"
  /\ inv[1].pc = "reading"
  /\ inv[1].status = 200
  /\ ~inv[1].aborted
  /\ inv[1].timer = "cleared"
  /\ inv[1].el = inv[2].el
  /\ inv[1].body # inv[2].body

\* the event loop runs every queued reaction, and an armed timer fires; nothing is
\* assumed of the remote side
Fairness ==
  /\ WF_vars(Reaction)
  /\ \A i \in Invocations : WF_vars(TimeoutCallback(i))

\* progress does not depend on what is sent: calls on an element of the page and on
\* a missing one
LiveConfigs == {(<<"element">> :> Str("#w")), (<<"element">> :> Str("#missing"))}

CallLive ==
  \E u \in LiveConfigs, cb \in Callbacks, t \in Instants :
    MoonPhase(u, cb, t) \/ StarChart(u, cb, t)

NextLive == Construct \/ CallLive \/ Task \/ Reaction

\* the request life cycle with the scheduling the run time guarantees
SpecLive == Init /\ [][NextLive]_vars /\ Fairness

\* the "Loading..." placeholder that invocation i appended is in its element
LoadingShown(i) ==
  /\ inv[i].el \in DOMAIN dom
  /\ \E k \in 1..Len(dom[inv[i].el].children) :
       dom[inv[i].el].children[k] = getPlaceholder("Loading...", 0, i)

\* C22: every invocation that enters Loading eventually reaches a terminal outcome
\* and its "Loading..." placeholder is eventually gone from the element, assuming only
\* that an armed timer fires (and that queued reactions run), whether the remote side
\* never answers, answers with a status line and never finishes the body, or fails.
C22_LoadingEnds ==
  \A i \in Invocations :
    (inv[i].pc = "pending") ~> (inv[i].pc = "done" /\ ~LoadingShown(i))

\* what the timer does guarantee: a request does not wait for the status line forever
PendingEnds ==
  \A i \in Invocations : (inv[i].pc = "pending") ~> (inv[i].pc # "pending")

\* an invocation stays in Loading only by waiting, its timer cleared, for a body
LoadingEndsOrBodyHangs ==
  \A i \in Invocations :
    (inv[i].pc = "pending")
      ~> \/ inv[i].pc = "done" /\ ~LoadingShown(i)
         \/ [](inv[i].pc = "reading" /\ inv[i].timer = "cleared")

====
